---- MODULE Spec2Model ----
(***************************************************************************)
(* Model of the qa-angular-ui request/response mediation layer:            *)
(* ApiService (URL construction and HTTP dispatch), TestGeneratorService,  *)
(* and the three view coordinators DashboardComponent,                     *)
(* GenerateTestComponent and TestListComponent, under the router.          *)
(*                                                                         *)
(* Representation of values                                                *)
(*  - A URL or path is a sequence of tokens; the token "/" is the slash    *)
(*    character and every other token is a slash-free run of characters.   *)
(*  - A JSON object is a record; an absent field is absent from its        *)
(*    DOMAIN.  A JSON array at the top level of a body is Arr(seq), the    *)
(*    JavaScript value undefined is Undefined.                             *)
(***************************************************************************)
EXTENDS Integers, Sequences, FiniteSets, TLC

VARIABLES
    apiBaseUrl,   \* environment.apiBaseUrl, fixed at start-up
    route,        \* the page the router outlet shows ("none" before the first navigation)
    comps,        \* every component instance created so far, in creation order
    http,         \* every request handed to HttpClient and sent, in dispatch order
    deliveries,   \* every outcome HttpClient delivered to a subscriber, in arrival order
    submits,      \* every invocation of GenerateTestComponent.submit, in order
    intercepted,  \* every invocation of an HTTP interceptor: what it received and forwarded
    handled       \* every outcome the HTTP handler produced, in arrival order

vars == <<apiBaseUrl, route, comps, http, deliveries, submits, intercepted, handled>>

(***************************************************************************)
(* Bounds of the model                                                      *)
(***************************************************************************)
MaxInstances == 1
MaxCalls == 2
MaxSubmits == 2

(***************************************************************************)
(* Values                                                                   *)
(***************************************************************************)
Undefined == [undefined |-> TRUE]
Arr(s) == [array |-> s]
EmptyObject == [f \in {} |-> f]

Slash == "/"

\* README: environment.ts points at http://localhost:8000/api by default
DefaultBaseUrl == <<"host", Slash, "api">>

BaseUrls ==
    { <<"host", Slash, "api">>,
      <<"host", Slash, "api", Slash>>,
      <<"host", Slash, "api", Slash, Slash>> }

ScreenIds == {"", " ", "screen_123"}

TestsGeneratePath == <<Slash, "tests", Slash, "generate">>
TestsPath == <<Slash, "tests">>
DashboardSummaryPath == <<Slash, "dashboard", Slash, "summary">>

ApiErrorBody == [code |-> "RATE_LIMIT", message |-> "too many requests"]

GenerateBodies ==
    { [testId |-> "tst_789", status |-> "queued", tests |-> <<>>],
      [testId |-> "tst_790", status |-> "running"],
      [data |-> [testId |-> "tst_791", status |-> "passed"], error |-> ApiErrorBody] }

SummaryBodies ==
    { [activeJobs |-> 2, lastRun |-> "t1"],
      [data |-> [activeJobs |-> 3, lastRun |-> "t2"], error |-> ApiErrorBody] }

ListBodies ==
    { Arr(<<[testId |-> "tst_1", status |-> "passed"]>>),
      [data |-> Arr(<<[testId |-> "tst_2", status |-> "failed"]>>), error |-> ApiErrorBody] }

\* what HttpClient hands to an error callback: HttpErrorResponse {status, error}
ErrorResponses ==
    { [status |-> 500, body |-> ApiErrorBody],
      [status |-> 0, body |-> [type |-> "error"]] }

(***************************************************************************)
(* ApiService                                                               *)
(***************************************************************************)
\* String.prototype.replace(/\/$/, ''): removes one slash at the end, if any
replaceTrailingSlash(s) ==
    IF Len(s) > 0 /\ s[Len(s)] = Slash THEN SubSeq(s, 1, Len(s) - 1) ELSE s

\* private base = environment.apiBaseUrl.replace(/\/$/, '')
base == replaceTrailingSlash(apiBaseUrl)

startsWith(path) == Len(path) > 0 /\ path[1] = Slash

\* `${this.base}${path.startsWith('/') ? path : '/' + path}`
url(path) == base \o (IF startsWith(path) THEN path ELSE <<Slash>> \o path)

get(path) == [method |-> "GET", path |-> path, url |-> url(path), body |-> Undefined,
     headers |-> EmptyObject]

post(path, body) == [method |-> "POST", path |-> path, url |-> url(path), body |-> body,
     headers |-> EmptyObject]

put(path, body) == [method |-> "PUT", path |-> path, url |-> url(path), body |-> body,
     headers |-> EmptyObject]

delete(path) == [method |-> "DELETE", path |-> path, url |-> url(path), body |-> Undefined,
     headers |-> EmptyObject]

(***************************************************************************)
(* TestGeneratorService                                                     *)
(***************************************************************************)
generate(screenId, options) ==
    post(TestsGeneratePath, [screenId |-> screenId, options |-> options])

(***************************************************************************)
(* AuthInterceptor and the HTTP_INTERCEPTORS providers                      *)
(***************************************************************************)
\* an interceptor that attaches the token, as the commented-out example does
interceptWithToken(req) == [req EXCEPT !.headers = [Authorization |-> "Bearer token"]]

\* return next.handle(req): the descriptor AuthInterceptor hands to the next handler
intercept(req) == req

\* return next.handle(req): the handler's outcome is returned as it is
interceptOutcome(outcome) == outcome

\* { provide: HTTP_INTERCEPTORS, useClass: AuthInterceptor, multi: true }
Interceptors == <<"AuthInterceptor">>

\* the interceptor invocations one request causes, from interceptor j on
RECURSIVE Chain(_, _, _)
Chain(req, call, j) ==
    IF j > Len(Interceptors) THEN <<>>
    ELSE <<[call |-> call, received |-> req, forwarded |-> intercept(req)]>>
            \o Chain(intercept(req), call, j + 1)

\* the interceptor invocations of the requests reqs, numbered after call number first
RECURSIVE ChainAll(_, _)
ChainAll(reqs, first) ==
    IF Len(reqs) = 0 THEN <<>>
    ELSE Chain(Head(reqs), first + 1, 1) \o ChainAll(Tail(reqs), first + 1)

\* the outcome a subscriber sees after it passed back through interceptors j..1
RECURSIVE Returned(_, _)
Returned(outcome, j) ==
    IF j = 0 THEN outcome ELSE Returned(interceptOutcome(outcome), j - 1)

(***************************************************************************)
(* Component instances                                                      *)
(***************************************************************************)
\* DashboardComponent: summary: any
NewDashboard == [kind |-> "dashboard", alive |-> TRUE, summary |-> Undefined]

\* GenerateTestComponent: form = fb.group({screenId: ['', Validators.required]}); result: any
NewGenerate == [kind |-> "generate", alive |-> TRUE, screenId |-> "", result |-> Undefined]

\* TestListComponent: tests: any[] = []
NewList == [kind |-> "list", alive |-> TRUE, tests |-> Arr(<<>>)]

\* the snapshot a coordinator holds, and the value it holds when constructed
Held(comp) ==
    CASE comp.kind = "dashboard" -> comp.summary
      [] comp.kind = "generate" -> comp.result
      [] comp.kind = "list" -> comp.tests

InitialHeld(comp) ==
    CASE comp.kind = "dashboard" -> NewDashboard.summary
      [] comp.kind = "generate" -> NewGenerate.result
      [] comp.kind = "list" -> NewList.tests

\* x => (this.summary = x)
setSummary(comp, x) == [comp EXCEPT !.summary = x]

\* a partial merge: fields of the earlier result survive in the new one
setResultMerged(comp, res) ==
    [comp EXCEPT !.result = IF comp.result = Undefined THEN res ELSE res @@ comp.result]

\* res => (this.result = res)
setResult(comp, res) == [comp EXCEPT !.result = res]

\* (x: any) => (this.tests = x)
setTests(comp, x) == [comp EXCEPT !.tests = x]

\* the next-callback each coordinator passes to subscribe
onNext(comp, x) ==
    CASE comp.kind = "dashboard" -> setSummary(comp, x)
      [] comp.kind = "generate" -> setResult(comp, x)
      [] comp.kind = "list" -> setTests(comp, x)

\* no coordinator passes an error callback to subscribe: the instance is left as it is
onError(comp, e) == comp

\* a form that is valid whatever the control holds
validAlways(screenId) == TRUE

\* Validators.required on the screenId control
valid(screenId) == screenId # ""

\* a submit() that subscribes twice to the observable generate() returns
submitRequestsTwice(screenId) ==
    IF valid(screenId)
    THEN <<generate(screenId, EmptyObject), generate(screenId, EmptyObject)>>
    ELSE <<>>

\* the requests one submit() subscribes to:
\* if (this.form.valid) { this.gen.generate(this.form.value.screenId).subscribe(...) }
submitRequests(screenId) ==
    IF valid(screenId) THEN <<generate(screenId, EmptyObject)>> ELSE <<>>

(***************************************************************************)
(* HTTP: subscribing to the cold observable sends the request once          *)
(***************************************************************************)
Dispatch(req, c, s) == req @@ [comp |-> c, sub |-> s]

DispatchAll(reqs, c, s) == [i \in DOMAIN reqs |-> Dispatch(reqs[i], c, s)]

Pending(i) == \A d \in DOMAIN deliveries : deliveries[d].req # i

\* the 2xx bodies the backend may answer a request with
Bodies(req) ==
    IF req.path = TestsGeneratePath THEN GenerateBodies
    ELSE IF req.path = TestsPath THEN ListBodies
    ELSE SummaryBodies

Destroyed == [i \in DOMAIN comps |-> [comps[i] EXCEPT !.alive = FALSE]]

Current == {c \in DOMAIN comps : comps[c].alive}

(***************************************************************************)
(* Initial state and actions                                                *)
(***************************************************************************)
Init ==
    /\ apiBaseUrl = DefaultBaseUrl
    /\ route = "none"
    /\ comps = <<>>
    /\ http = <<>>
    /\ deliveries = <<>>
    /\ submits = <<>>
    /\ intercepted = <<>>
    /\ handled = <<>>

\* route '' : DashboardComponent is created and its ngOnInit runs
NavigateDashboard ==
    /\ route # "dashboard"
    /\ Len(comps) < MaxInstances
    /\ Len(http) < MaxCalls
    /\ route' = "dashboard"
    /\ comps' = Append(Destroyed, NewDashboard)
    /\ http' = Append(http, Dispatch(get(DashboardSummaryPath), Len(comps) + 1, 0))
    /\ intercepted' = intercepted \o ChainAll(<<get(DashboardSummaryPath)>>, Len(http))
    /\ UNCHANGED <<apiBaseUrl, deliveries, submits, handled>>

\* route 'generate' : GenerateTestComponent is created
NavigateGenerate ==
    /\ route # "generate"
    /\ Len(comps) < MaxInstances
    /\ route' = "generate"
    /\ comps' = Append(Destroyed, NewGenerate)
    /\ UNCHANGED <<apiBaseUrl, http, deliveries, submits, intercepted, handled>>

\* route 'tests' : TestListComponent is created and its ngOnInit runs
NavigateList ==
    /\ route # "list"
    /\ Len(comps) < MaxInstances
    /\ Len(http) < MaxCalls
    /\ route' = "list"
    /\ comps' = Append(Destroyed, NewList)
    /\ http' = Append(http, Dispatch(get(TestsPath), Len(comps) + 1, 0))
    /\ intercepted' = intercepted \o ChainAll(<<get(TestsPath)>>, Len(http))
    /\ UNCHANGED <<apiBaseUrl, deliveries, submits, handled>>

\* route 'settings' : SettingsComponent holds no state
NavigateSettings ==
    /\ route # "settings"
    /\ route' = "settings"
    /\ comps' = Destroyed
    /\ UNCHANGED <<apiBaseUrl, http, deliveries, submits, intercepted, handled>>

\* the user edits the Screen ID input (formControlName="screenId")
SetScreenId(c, v) ==
    /\ c \in Current
    /\ comps[c].kind = "generate"
    /\ comps[c].screenId # v
    /\ comps' = [comps EXCEPT ![c].screenId = v]
    /\ UNCHANGED <<apiBaseUrl, route, http, deliveries, submits, intercepted, handled>>

\* GenerateTestComponent.submit (ngSubmit)
submit(c) ==
    /\ c \in Current
    /\ comps[c].kind = "generate"
    /\ Len(submits) < MaxSubmits
    /\ LET reqs == submitRequests(comps[c].screenId) IN
        /\ Len(http) + Len(reqs) <= MaxCalls
        /\ http' = http \o DispatchAll(reqs, c, Len(submits) + 1)
        /\ intercepted' = intercepted \o ChainAll(reqs, Len(http))
    /\ submits' = Append(submits, [comp |-> c, screenId |-> comps[c].screenId])
    /\ UNCHANGED <<apiBaseUrl, route, comps, deliveries, handled>>

\* a 2xx response arrives: the subscriber's next callback runs
HttpNext(i, body) ==
    /\ i \in DOMAIN http
    /\ Pending(i)
    /\ body \in Bodies(http[i])
    /\ LET outcome == [req |-> i, ok |-> TRUE, status |-> 200, body |-> body] IN
        /\ handled' = Append(handled, outcome)
        /\ deliveries' = Append(deliveries, Returned(outcome, Len(Interceptors)))
    /\ comps' = [comps EXCEPT ![http[i].comp] = onNext(@, body)]
    /\ UNCHANGED <<apiBaseUrl, route, http, submits, intercepted>>

\* a non-2xx response, a network failure or a timeout: the observable errors
HttpError(i, e) ==
    /\ i \in DOMAIN http
    /\ Pending(i)
    /\ e \in ErrorResponses
    /\ LET outcome == [req |-> i, ok |-> FALSE, status |-> e.status, body |-> e.body] IN
        /\ handled' = Append(handled, outcome)
        /\ deliveries' = Append(deliveries, Returned(outcome, Len(Interceptors)))
    /\ comps' = [comps EXCEPT ![http[i].comp] = onError(@, e)]
    /\ UNCHANGED <<apiBaseUrl, route, http, submits, intercepted>>

Next ==
    \/ NavigateDashboard
    \/ NavigateGenerate
    \/ NavigateList
    \/ NavigateSettings
    \/ \E c \in DOMAIN comps, v \in ScreenIds : SetScreenId(c, v)
    \/ \E c \in DOMAIN comps : submit(c)
    \/ \E i \in DOMAIN http, body \in GenerateBodies \cup SummaryBodies \cup ListBodies : HttpNext(i, body)
    \/ \E i \in DOMAIN http, e \in ErrorResponses : HttpError(i, e)

Spec == Init /\ [][Next]_vars

(***************************************************************************)
(* ApiService called directly with arbitrary paths, under every configured *)
(* base URL                                                                 *)
(***************************************************************************)
Paths ==
    { <<"tests">>,
      <<Slash, "tests">>,
      <<Slash, Slash, "tests">>,
      <<"tests", Slash>>,
      <<Slash, "tests", Slash, "generate">>,
      <<>> }

InitApi ==
    /\ apiBaseUrl \in BaseUrls
    /\ route = "none"
    /\ comps = <<>>
    /\ http = <<>>
    /\ deliveries = <<>>
    /\ submits = <<>>
    /\ intercepted = <<>>
    /\ handled = <<>>

ApiCall(req) ==
    /\ Len(http) < MaxCalls
    /\ http' = Append(http, Dispatch(req, 0, 0))
    /\ intercepted' = intercepted \o ChainAll(<<req>>, Len(http))
    /\ UNCHANGED <<apiBaseUrl, route, comps, deliveries, submits, handled>>

ApiGet(path) == ApiCall(get(path))

ApiPost(path) == ApiCall(post(path, EmptyObject))

ApiPut(path) == ApiCall(put(path, EmptyObject))

ApiDelete(path) == ApiCall(delete(path))

NextApi ==
    \/ \E path \in Paths : ApiGet(path)
    \/ \E path \in Paths : ApiPost(path)
    \/ \E path \in Paths : ApiPut(path)
    \/ \E path \in Paths : ApiDelete(path)

SpecApi == InitApi /\ [][NextApi]_vars

(***************************************************************************)
(* Derived notions used by the properties                                   *)
(***************************************************************************)
CallsOf(c) == {i \in DOMAIN http : http[i].comp = c}

InFlight(c) == {i \in CallsOf(c) : Pending(i)}

\* positions in deliveries of the outcomes delivered to coordinator c
DeliveredTo(c) == {d \in DOMAIN deliveries : http[deliveries[d].req].comp = c}

SuccessesTo(c) == {d \in DeliveredTo(c) : deliveries[d].ok}

Max(S) == CHOOSE m \in S : \A n \in S : n <= m

\* position in deliveries of the outcome of request i
PosOf(i) == CHOOSE d \in DOMAIN deliveries : deliveries[d].req = i

RECURSIVE stripTrailingSlashes(_)
stripTrailingSlashes(s) ==
    IF Len(s) > 0 /\ s[Len(s)] = Slash
    THEN stripTrailingSlashes(SubSeq(s, 1, Len(s) - 1))
    ELSE s

RECURSIVE stripLeadingSlashes(_)
stripLeadingSlashes(s) ==
    IF Len(s) > 0 /\ s[1] = Slash THEN stripLeadingSlashes(Tail(s)) ELSE s

IsEnvelopeWithError(body) == {"data", "error"} \subseteq DOMAIN body

(***************************************************************************)
(* Properties                                                               *)
(***************************************************************************)

\* C1: when a Generate coordinator has issued exactly two calls i < j, both
\* answered with a 2xx response and the answer to j arrived before the answer
\* to i, the result it holds is the response to j, the latest-issued call.
C1_LatestIssuedWins ==
    \A c \in DOMAIN comps : \A i, j \in CallsOf(c) :
        ( /\ comps[c].kind = "generate"
          /\ CallsOf(c) = {i, j}
          /\ i < j
          /\ InFlight(c) = {}
          /\ deliveries[PosOf(i)].ok
          /\ deliveries[PosOf(j)].ok
          /\ PosOf(j) < PosOf(i) )
        => comps[c].result = deliveries[PosOf(j)].body

\* C2: when the latest outcome delivered to a coordinator is a failure that
\* carries the backend's {code, message}, the coordinator holds exactly that
\* ApiError.
C2_FailureLeavesErrored ==
    \A c \in DOMAIN comps :
        DeliveredTo(c) # {} =>
            LET last == deliveries[Max(DeliveredTo(c))] IN
            (~last.ok /\ {"code", "message"} \subseteq DOMAIN last.body)
                => Held(comps[c]) = [code |-> last.body.code, message |-> last.body.message]

\* C3: every URL ApiService builds is the base without its trailing slashes,
\* one slash, and the path without its leading slashes.
C3_ExactlyOneSlash ==
    \A i \in DOMAIN http :
        http[i].url = stripTrailingSlashes(apiBaseUrl) \o <<Slash>> \o stripLeadingSlashes(http[i].path)

\* C4: every submit() with a non-empty screenId has exactly one request in the
\* dispatch log, a POST to /tests/generate with body {screenId, options} of
\* that submission, and no submit() has more than one.
C4_OnePostPerSubmission ==
    \A s \in DOMAIN submits :
        LET R == {i \in DOMAIN http : http[i].sub = s} IN
        /\ Cardinality(R) <= 1
        /\ submits[s].screenId # "" =>
            /\ Cardinality(R) = 1
            /\ \A i \in R :
                /\ http[i].method = "POST"
                /\ http[i].path = TestsGeneratePath
                /\ http[i].body = [screenId |-> submits[s].screenId, options |-> EmptyObject]
                /\ http[i].comp = submits[s].comp

C4_Witness ==
    /\ Len(submits) = 2
    /\ submits[1].screenId = "screen_123"
    /\ submits[2].screenId = " "
    /\ Len(http) = 2

\* C5: when the latest outcome delivered to a coordinator is a failure, the
\* coordinator holds no snapshot of an earlier successful call.
C5_NoStaleSnapshot ==
    \A c \in DOMAIN comps :
        (DeliveredTo(c) # {} /\ ~deliveries[Max(DeliveredTo(c))].ok)
            => \A d \in SuccessesTo(c) : Held(comps[c]) # deliveries[d].body

\* C6: the snapshot a coordinator holds is its initial value while no 2xx
\* response was delivered to it, and afterwards exactly the body of the latest
\* 2xx response delivered to it.
C6_HeldIsBackendSnapshot ==
    \A c \in DOMAIN comps :
        Held(comps[c]) =
            IF SuccessesTo(c) = {} THEN InitialHeld(comps[c])
            ELSE deliveries[Max(SuccessesTo(c))].body

C6_Witness ==
    \E c \in DOMAIN comps :
        /\ comps[c].kind = "generate"
        /\ Cardinality(SuccessesTo(c)) = 2
        /\ comps[c].result = [testId |-> "tst_789", status |-> "queued", tests |-> <<>>]
        /\ deliveries[1].body # comps[c].result

\* C7: when the latest 2xx response delivered to a Generate coordinator is a
\* generation result without a tests field, the result it holds has tests
\* equal to the empty sequence.
C7_MissingTestsIsEmpty ==
    \A c \in DOMAIN comps :
        (comps[c].kind = "generate" /\ SuccessesTo(c) # {}) =>
            LET body == deliveries[Max(SuccessesTo(c))].body IN
            ("testId" \in DOMAIN body /\ "tests" \notin DOMAIN body)
                => ("tests" \in DOMAIN comps[c].result /\ comps[c].result.tests = <<>>)

\* C8: when the latest 2xx response delivered to a coordinator is an envelope
\* with both data and a non-null error, the coordinator holds the error and
\* not the envelope's data.
C8_ErrorTakesPrecedence ==
    \A c \in DOMAIN comps :
        SuccessesTo(c) # {} =>
            LET body == deliveries[Max(SuccessesTo(c))].body IN
            IsEnvelopeWithError(body) =>
                /\ Held(comps[c]) = body.error
                /\ "data" \notin DOMAIN Held(comps[c])

\* C9: a submit() with an empty screenId dispatches no request and changes no
\* component; generate() builds the POST for any screenId, the empty one
\* included.
C9_Step ==
    /\ (Len(submits') = Len(submits) + 1 /\ submits'[Len(submits')].screenId = "")
        => (http' = http /\ comps' = comps)
    /\ \A s \in DOMAIN submits' :
        submits'[s].screenId = "" => \A i \in DOMAIN http' : http'[i].sub # s
    /\ \A sid \in ScreenIds :
        generate(sid, EmptyObject) =
            post(TestsGeneratePath, [screenId |-> sid, options |-> EmptyObject])

C9_EmptyScreenIdRejected == [][C9_Step]_vars

C9_Witness ==
    /\ Len(submits) = 2
    /\ submits[1].screenId = "screen_123"
    /\ submits[2].screenId = ""
    /\ Len(http) = 1
    /\ \E c \in DOMAIN comps : comps[c].kind = "generate" /\ comps[c].result # Undefined

\* C10: no coordinator has more than one request in flight.
C10_AtMostOneInFlight ==
    \A c \in DOMAIN comps : Cardinality(InFlight(c)) <= 1

\* C11: once a coordinator is torn down, no later step changes the state it
\* holds: the response or error of a call it left in flight is not applied.
C11_Step ==
    \A c \in DOMAIN comps : ~comps[c].alive => comps'[c] = comps[c]

C11_NoUpdateAfterTeardown == [][C11_Step]_vars

\* the request descriptor ApiService handed to HttpClient for call i
Descriptor(i) ==
    [method |-> http[i].method, path |-> http[i].path, url |-> http[i].url,
     body |-> http[i].body, headers |-> http[i].headers]

\* C12: for every outbound call AuthInterceptor.intercept runs exactly once,
\* receives the descriptor ApiService built and hands the identical descriptor
\* (method, URL, body, headers) to the next handler; every outcome a
\* subscriber receives is the outcome the handler produced, unchanged.
C12_InterceptorPassThrough ==
    /\ \A i \in DOMAIN http :
        LET K == {k \in DOMAIN intercepted : intercepted[k].call = i} IN
        /\ Cardinality(K) = 1
        /\ \A k \in K :
            /\ intercepted[k].received = Descriptor(i)
            /\ intercepted[k].forwarded = intercepted[k].received
    /\ \A k \in DOMAIN intercepted : intercepted[k].call \in DOMAIN http
    /\ deliveries = handled

C12_Witness ==
    /\ Len(http) = 2
    /\ Len(intercepted) = 2
    /\ intercepted[2].forwarded.method = "POST"
    /\ intercepted[2].forwarded.body.screenId = "screen_123"
    /\ Len(deliveries) = 2
    /\ deliveries[1].ok
    /\ ~deliveries[2].ok

====
